---- MODULE Spec2Model ----
(***************************************************************************)
(* Model of scout.py (Founder Scout): the five source adapters, the       *)
(* scorer calculate_score and the aggregation pipeline of main().         *)
(*                                                                         *)
(* Free text (location, bio, company) is a sequence of one-character      *)
(* strings, so that str.lower() and the substring test `kw in text` are   *)
(* computed rather than assumed.  Identifiers (logins, repository and     *)
(* project names, discovery methods) are atomic strings.                  *)
(*                                                                         *)
(* Scores are exact rationals held as integers: the sub-scores computed   *)
(* by calculate_score are in twentieths (1/20), the overall score in      *)
(* four-hundredths (1/400), and the values stored by round(x, 1) are in   *)
(* tenths.                                                                 *)
(***************************************************************************)
EXTENDS Integers, Sequences, FiniteSets, TLC

VARIABLES
    pc,             \* Spec: where main() is
    token,          \* Spec: os.environ.get('GITHUB_TOKEN')
    all_founders,   \* Spec: main's list
    seen_usernames, \* Spec: main's set
    insertion,      \* Spec: the usernames in the order main appended them
    yielded,        \* Spec: <<adapter, username>> for every record an adapter returned
    invoked,        \* Spec: the adapters whose method main has called
    raised,         \* Spec: the adapters whose call ended in main's except clause
    network,        \* Spec: whether any upstream call has been issued
    file,           \* Spec: the content of developers.json, or NoFile
    writes,         \* Spec: how many times main() has opened developers.json for writing
    probe,          \* SpecScore: the record handed to calculate_score
    scored,         \* SpecScore: the record calculate_score returned, or NotScored
    adapter,        \* SpecAdapters: the adapter whose method is running
    qi,             \* SpecAdapters: index of the next query / project / page / term
    local,          \* SpecAdapters: the method's founders, seen and this iteration's trace
    answer,         \* SpecAdapters: the upstream answer this iteration got, or NoAnswer
    returned        \* SpecAdapters: the list the method returned, or NotReturned

main_vars ==
    <<pc, token, all_founders, seen_usernames, insertion, yielded, invoked, raised, network, file,
      writes>>

score_vars == <<probe, scored>>

adapter_vars == <<adapter, qi, local, answer, returned>>

vars == <<main_vars, score_vars, adapter_vars>>

----------------------------------------------------------------------------
(* Python values *)

\* None, as a text value (a one-element sequence that is no character)
None == <<"None">>

\* x or d
Or(x, d) == IF x = None \/ x = <<>> THEN d ELSE x

\* dict.get(k, d)
Get(r, k, d) == IF k \in DOMAIN r THEN r[k] ELSE d

Min(a, b) == IF a < b THEN a ELSE b

LowerChar(c) ==
    CASE c = "A" -> "a" [] c = "B" -> "b" [] c = "C" -> "c" [] c = "D" -> "d"
      [] c = "E" -> "e" [] c = "F" -> "f" [] c = "G" -> "g" [] c = "H" -> "h"
      [] c = "I" -> "i" [] c = "J" -> "j" [] c = "K" -> "k" [] c = "L" -> "l"
      [] c = "M" -> "m" [] c = "N" -> "n" [] c = "O" -> "o" [] c = "P" -> "p"
      [] c = "Q" -> "q" [] c = "R" -> "r" [] c = "S" -> "s" [] c = "T" -> "t"
      [] c = "U" -> "u" [] c = "V" -> "v" [] c = "W" -> "w" [] c = "X" -> "x"
      [] c = "Y" -> "y" [] c = "Z" -> "z" [] OTHER -> c

\* str.lower()
lower(text) == [i \in 1..Len(text) |-> LowerChar(text[i])]

\* kw in text (substring)
Contains(kw, text) ==
    \E i \in 0..(Len(text) - Len(kw)) :
        \A j \in 1..Len(kw) : text[i + j] = kw[j]

\* any(kw in text for kw in kws)
AnyIn(kws, text) == \E k \in 1..Len(kws) : Contains(kws[k], text)

\* round(n/d, 1 decimal) in units of 1/unit: the nearest multiple, ties to even.
\* (round() on a float rounds the float's exact value; on the values this model
\* feeds it the result is the one computed here.)
RoundHalfEven(n, d) ==
    LET q == n \div d
        r == n % d
    IN  IF 2 * r < d THEN q
        ELSE IF 2 * r > d THEN q + 1
        ELSE IF q % 2 = 0 THEN q ELSE q + 1

----------------------------------------------------------------------------
(* calculate_score *)

method_bonus(method) ==
    CASE method = "trending" -> 30
      [] method = "star_velocity" -> 25
      [] method = "contributor" -> 20
      [] method = "keyword" -> 10
      [] method = "huggingface" -> 15
      [] OTHER -> 0

founder_keywords ==
    << <<"f","o","u","n","d","e","r">>,
       <<"c","e","o">>,
       <<"c","t","o">>,
       <<"b","u","i","l","d","i","n","g">>,
       <<"y","c">> >>

tech_keywords ==
    << <<"a","i">>,
       <<"m","l">>,
       <<"l","l","m">>,
       <<"a","g","e","n","t">>,
       <<"l","a","n","g","c","h","a","i","n">> >>

\* growth = min(100, (followers / 10) + (repo_stars / 5)), in 1/20
growth_of(founder) ==
    Min(100 * 20, 2 * Get(founder, "followers", 0) + 4 * Get(founder, "repo_stars", 0))

\* velocity = min(100, 50 + (contributions * 2)), then += 10 on a tech bio, in 1/20
velocity_of(founder) ==
    LET bio == lower(Or(Get(founder, "bio", None), <<>>))
        velocity == Min(100 * 20, 50 * 20 + 40 * Get(founder, "contributions", 0))
    IN  IF AnyIn(tech_keywords, bio) THEN velocity + 10 * 20 ELSE velocity

\* hidden = min(100, (repos * 3) - (followers / 20) + 50), in 1/20
hidden_of(founder) ==
    Min(100 * 20,
        60 * Get(founder, "public_repos", 0) - Get(founder, "followers", 0) + 50 * 20)

\* pioneer = 50 + method_bonus.get(discovery_method, 0), then += 15 on a founder bio, in 1/20
pioneer_of(founder) ==
    LET bio == lower(Or(Get(founder, "bio", None), <<>>))
        pioneer == 20 * (50 + method_bonus(Get(founder, "discovery_method", "")))
    IN  IF AnyIn(founder_keywords, bio) THEN pioneer + 15 * 20 ELSE pioneer

\* overall = growth*0.25 + velocity*0.25 + hidden*0.2 + pioneer*0.3, in 1/400
overall_wrong_weights(growth, velocity, hidden, pioneer) ==
    (4 * growth) + (6 * velocity) + (5 * hidden) + (5 * pioneer)

overall_of(growth, velocity, hidden, pioneer) ==
    (5 * growth) + (5 * velocity) + (4 * hidden) + (6 * pioneer)

\* founder['scores'] = {...}; founder['overall_score'] = round(overall, 1)
calculate_score(founder) ==
    LET growth == growth_of(founder)
        velocity == velocity_of(founder)
        hidden == hidden_of(founder)
        pioneer == pioneer_of(founder)
        overall == overall_of(growth, velocity, hidden, pioneer)
        scores == [growth |-> RoundHalfEven(growth, 2),
                   velocity |-> RoundHalfEven(velocity, 2),
                   hidden_gem |-> RoundHalfEven(hidden, 2),
                   pioneer |-> RoundHalfEven(pioneer, 2),
                   overall_score |-> RoundHalfEven(overall, 40)]
    IN  [k \in DOMAIN founder \cup {"scores", "overall_score"} |->
            IF k = "scores" THEN scores
            ELSE IF k = "overall_score" THEN RoundHalfEven(overall, 40)
            ELSE founder[k]]

----------------------------------------------------------------------------
(* The upstream services: what the code-hosting API and the model hub answer. *)
(* A call's outcome is its status code, or Raised when requests.get raises.   *)

\* requests.get raised (no response): the adapters' `except Exception` branches
Raised == 0

Statuses == {200, 403, 500, Raised}

Logins == {"asha", "ravi", "kim", "anon", "blank"}

\* GET /users/{login}: the profile JSON (fields read by no condition and copied
\* verbatim to the output -- name, avatar_url, html_url, blog, twitter -- are left out)
Users ==
    [login \in Logins |->
        CASE login = "asha" ->
                [login |-> "asha", bio |-> <<"A","I"," ","f","o","u","n","d","e","r">>,
                 location |-> <<"P","U","N","E">>, followers |-> 40, public_repos |-> 10,
                 company |-> None]
          [] login = "ravi" ->
                [login |-> "ravi", bio |-> <<"d","e","v">>,
                 location |-> <<"I","n","d","o","r","e">>, followers |-> 40, public_repos |-> 10,
                 company |-> <<"@","g","o","o","g","l","e">>]
          [] login = "kim" ->
                [login |-> "kim", bio |-> None,
                 location |-> <<"P","a","r","i","s">>, followers |-> 0, public_repos |-> 0,
                 company |-> <<>>]
          [] login = "anon" ->
                [login |-> "anon", bio |-> None,
                 location |-> None, followers |-> 0, public_repos |-> 0,
                 company |-> <<>>]
          [] OTHER ->
                [login |-> "blank", bio |-> <<>>,
                 location |-> <<>>, followers |-> 0, public_repos |-> 0,
                 company |-> None]]

\* the repository a search hit or a trending row names, and its star count
RepoOf(login) == [full_name |-> login, stargazers_count |-> 50]

----------------------------------------------------------------------------
(* The adapters.  An adapter's local state is s = [founders, seen, trace, exc]: *)
(* the list and the set the method keeps, the calls and sleeps it has made      *)
(* (<<"GET", endpoint, argument, status>> and <<"sleep", tenths of a second>>), *)
(* and whether an exception is propagating to the enclosing except clause.      *)

AdapterStart == [founders |-> <<>>, seen |-> {}, trace |-> <<>>, exc |-> FALSE]

Get_(s, endpoint, arg, status) ==
    [s EXCEPT !.trace = Append(@, <<"GET", endpoint, arg, status>>)]

Sleep(s, tenths) == [s EXCEPT !.trace = Append(@, <<"sleep", tenths>>)]

Take(seq, n) == SubSeq(seq, 1, Min(n, Len(seq)))

trending_india_keywords ==
    << <<"i","n","d","i","a">>,
       <<"b","a","n","g","a","l","o","r","e">>,
       <<"b","e","n","g","a","l","u","r","u">>,
       <<"m","u","m","b","a","i">>,
       <<"d","e","l","h","i">>,
       <<"h","y","d","e","r","a","b","a","d">>,
       <<"c","h","e","n","n","a","i">>,
       <<"p","u","n","e">>,
       <<"k","o","l","k","a","t","a">>,
       <<"g","u","r","g","a","o","n">>,
       <<"n","o","i","d","a">>,
       <<"a","h","m","e","d","a","b","a","d">>,
       <<"j","a","i","p","u","r">>,
       <<"k","o","c","h","i">>,
       <<"i","n","d","o","r","e">> >>

india_keywords ==
    << <<"i","n","d","i","a">>,
       <<"b","a","n","g","a","l","o","r","e">>,
       <<"b","e","n","g","a","l","u","r","u">>,
       <<"m","u","m","b","a","i">>,
       <<"d","e","l","h","i">>,
       <<"h","y","d","e","r","a","b","a","d">>,
       <<"c","h","e","n","n","a","i">>,
       <<"p","u","n","e">> >>

\* location = (user.get('location') or '').lower(); any(kw in location for kw in keywords)
LocationMatches_unfiltered(user, keywords) == TRUE

LocationMatches(user, keywords) ==
    AnyIn(keywords, lower(Or(user.location, <<>>)))

(* ---- StarVelocityScout.find_rising_stars ---- *)

queries == <<"created_python", "topic_llm", "topic_ai", "topic_langchain", "topic_agents">>

StarRecord(user, repo) ==
    [username |-> user.login,
     bio |-> Or(user.bio, <<>>),
     location |-> Or(user.location, <<>>),
     followers |-> user.followers,
     public_repos |-> user.public_repos,
     trending_repo |-> repo.full_name,
     repo_stars |-> repo.stargazers_count,
     discovery_method |-> "star_velocity",
     company |-> Or(user.company, <<>>)]

\* one `for repo in items` iteration; repo = [owner, profile_status]
StarItem_stops_at_failure(s, repo) ==
    IF repo.owner \in s.seen THEN s
    ELSE LET s1 == Get_([s EXCEPT !.seen = @ \cup {repo.owner}],
                        "users", repo.owner, repo.profile_status)
             user == Users[repo.owner]
         IN  IF repo.profile_status # 200 THEN [s1 EXCEPT !.exc = TRUE]
             ELSE IF LocationMatches(user, india_keywords)
                  THEN Sleep([s1 EXCEPT !.founders =
                                 Append(@, StarRecord(user, RepoOf(repo.owner)))], 3)
                  ELSE Sleep(s1, 3)

StarItem(s, repo) ==
    IF repo.owner \in s.seen THEN s
    ELSE LET s1 == Get_([s EXCEPT !.seen = @ \cup {repo.owner}],
                        "users", repo.owner, repo.profile_status)
             user == Users[repo.owner]
         IN  IF repo.profile_status = Raised THEN [s1 EXCEPT !.exc = TRUE]
             ELSE IF repo.profile_status = 200 /\ LocationMatches(user, india_keywords)
                  THEN Sleep([s1 EXCEPT !.founders =
                                 Append(@, StarRecord(user, RepoOf(repo.owner)))], 3)
                  ELSE Sleep(s1, 3)

RECURSIVE StarItems(_, _)
StarItems(s, items) ==
    IF items = <<>> \/ s.exc THEN s
    ELSE StarItems(StarItem(s, Head(items)), Tail(items))

\* one `for query in queries` iteration; resp = [status, items]
StarQuery(s, query, resp) ==
    LET s1 == Get_(s, "search/repositories", query, resp.status)
        s2 == IF resp.status = Raised THEN [s1 EXCEPT !.exc = TRUE]
              ELSE IF resp.status = 200 THEN StarItems(s1, resp.items)
              ELSE s1
    IN  IF s2.exc THEN [s2 EXCEPT !.exc = FALSE] ELSE Sleep(s2, 10)

(* ---- ContributorScout.get_hot_project_contributors ---- *)

hot_projects ==
    <<"langchain", "langgraph", "transformers", "llama_index", "chroma", "autogen", "crewAI">>

min_contributions == 5

ContributorRecord(user, project, contrib) ==
    [username |-> user.login,
     bio |-> Or(user.bio, <<>>),
     location |-> Or(user.location, <<>>),
     followers |-> user.followers,
     public_repos |-> user.public_repos,
     contributed_to |-> project,
     contributions |-> contrib.contributions,
     discovery_method |-> "contributor",
     company |-> Or(user.company, <<>>)]

\* one `for contrib in resp.json()` iteration; contrib = [login, contributions, profile_status]
ContributorItem_marks_before_threshold(s, project, contrib) ==
    IF contrib.login \in s.seen THEN s
    ELSE IF contrib.contributions < min_contributions
         THEN [s EXCEPT !.seen = @ \cup {contrib.login}]
    ELSE LET s1 == Get_([s EXCEPT !.seen = @ \cup {contrib.login}],
                        "users", contrib.login, contrib.profile_status)
             user == Users[contrib.login]
         IN  IF contrib.profile_status = Raised THEN [s1 EXCEPT !.exc = TRUE]
             ELSE IF contrib.profile_status = 200 /\ LocationMatches(user, india_keywords)
                  THEN Sleep([s1 EXCEPT !.founders =
                                 Append(@, ContributorRecord(user, project, contrib))], 3)
                  ELSE Sleep(s1, 3)

ContributorItem(s, project, contrib) ==
    IF ~(contrib.login \notin s.seen /\ contrib.contributions >= min_contributions) THEN s
    ELSE LET s1 == Get_([s EXCEPT !.seen = @ \cup {contrib.login}],
                        "users", contrib.login, contrib.profile_status)
             user == Users[contrib.login]
         IN  IF contrib.profile_status = Raised THEN [s1 EXCEPT !.exc = TRUE]
             ELSE IF contrib.profile_status = 200 /\ LocationMatches(user, india_keywords)
                  THEN Sleep([s1 EXCEPT !.founders =
                                 Append(@, ContributorRecord(user, project, contrib))], 3)
                  ELSE Sleep(s1, 3)

RECURSIVE ContributorItems(_, _, _)
ContributorItems(s, project, items) ==
    IF items = <<>> \/ s.exc THEN s
    ELSE ContributorItems(ContributorItem(s, project, Head(items)), project, Tail(items))

\* one `for project in hot_projects` iteration; resp = [status, items]
ContributorProject(s, project, resp) ==
    LET s1 == Get_(s, "contributors", project, resp.status)
        s2 == IF resp.status = Raised THEN [s1 EXCEPT !.exc = TRUE]
              ELSE IF resp.status = 200 THEN ContributorItems(s1, project, resp.items)
              ELSE s1
    IN  IF s2.exc THEN [s2 EXCEPT !.exc = FALSE] ELSE Sleep(s2, 10)

(* ---- KeywordScout.search ---- *)

searches ==
    <<"founder_agentic", "cofounder_cto", "langgraph", "langchain", "llm",
      "stealth", "followers_100", "bangalore", "yc">>

KeywordRecord(profile) ==
    [username |-> profile.login,
     bio |-> Or(profile.bio, <<>>),
     location |-> Or(profile.location, <<>>),
     followers |-> profile.followers,
     public_repos |-> profile.public_repos,
     discovery_method |-> "keyword",
     company |-> Or(profile.company, <<>>)]

\* one `for user in items` iteration; user = [login, profile_status]
KeywordItem(s, user) ==
    IF user.login \in s.seen THEN s
    ELSE LET s1 == Get_([s EXCEPT !.seen = @ \cup {user.login}],
                        "users", user.login, user.profile_status)
         IN  IF user.profile_status = Raised THEN [s1 EXCEPT !.exc = TRUE]
             ELSE IF user.profile_status = 200
                  THEN Sleep([s1 EXCEPT !.founders =
                                 Append(@, KeywordRecord(Users[user.login]))], 3)
                  ELSE Sleep(s1, 3)

RECURSIVE KeywordItems(_, _)
KeywordItems(s, items) ==
    IF items = <<>> \/ s.exc THEN s
    ELSE KeywordItems(KeywordItem(s, Head(items)), Tail(items))

\* one `for query in searches` iteration; resp = [status, items]
KeywordQuery(s, query, resp) ==
    LET s1 == Get_(s, "search/users", query, resp.status)
        s2 == IF resp.status = Raised THEN [s1 EXCEPT !.exc = TRUE]
              ELSE IF resp.status = 200 THEN KeywordItems(s1, resp.items)
              ELSE s1
    IN  IF s2.exc THEN [s2 EXCEPT !.exc = FALSE] ELSE Sleep(s2, 10)

(* ---- TrendingScout ---- *)

languages == <<"none", "python", "typescript", "javascript", "rust", "go">>

periods == <<"daily", "weekly">>

\* the (lang, period) pairs in the order of the nested loops
pages ==
    [i \in 1..(Len(languages) * Len(periods)) |->
        <<languages[((i - 1) \div Len(periods)) + 1], periods[((i - 1) % Len(periods)) + 1]>>]

trending_cap == 25

\* get_trending_repos: the rows of the page whatever its status; [] when the get raises
get_trending_repos(resp) ==
    IF resp.status = Raised THEN <<>> ELSE Take(resp.repos, trending_cap)

NoDetails == [username |-> "-"]

TrendingRecord(user, repo_path, repo) ==
    [username |-> user.login,
     bio |-> Or(user.bio, <<>>),
     location |-> Or(user.location, <<>>),
     followers |-> user.followers,
     public_repos |-> user.public_repos,
     trending_repo |-> repo_path,
     repo_stars |-> Get(repo, "stargazers_count", 0),
     discovery_method |-> "trending",
     company |-> Or(user.company, <<>>)]

\* get_repo_owner_details; row = [owner, profile_status, repo_status].
\* Returns the adapter state (its trace extended) and the details or NoDetails.
get_repo_owner_details(s, row) ==
    LET s1 == Get_(s, "users", row.owner, row.profile_status)
        user == Users[row.owner]
        s2 == Get_(s1, "repos", row.owner, row.repo_status)
        repo == IF row.repo_status = 200 THEN RepoOf(row.owner) ELSE <<>>
    IN  IF row.profile_status # 200 THEN [s |-> s1, details |-> NoDetails]
        ELSE IF ~LocationMatches(user, trending_india_keywords)
             THEN [s |-> s1, details |-> NoDetails]
        ELSE IF row.repo_status = Raised THEN [s |-> s2, details |-> NoDetails]
        ELSE [s |-> s2, details |-> TrendingRecord(user, row.owner, repo)]

\* one `for repo in repos` iteration
TrendingItem(s, row) ==
    IF row.owner \in s.seen THEN s
    ELSE LET r == get_repo_owner_details([s EXCEPT !.seen = @ \cup {row.owner}], row)
         IN  IF r.details # NoDetails
             THEN Sleep([r.s EXCEPT !.founders = Append(@, r.details)], 5)
             ELSE Sleep(r.s, 5)

RECURSIVE TrendingItems(_, _)
TrendingItems(s, rows) ==
    IF rows = <<>> THEN s
    ELSE TrendingItems(TrendingItem(s, Head(rows)), Tail(rows))

\* one (lang, period) iteration of discover_from_trending; resp = [status, repos]
TrendingPage(s, page, resp) ==
    TrendingItems(Get_(s, "trending", page, resp.status), get_trending_repos(resp))

(* ---- HuggingFaceScout.search_indian_ml_builders ---- *)

search_terms == <<"india", "hindi", "bengali", "tamil", "indic">>

max_users == 20

\* GET /models: a model's JSON is [author, downloads]; modelId is the author's one model
HFAuthors == {"asha", "hfdev", ""}

HFModelId(author) == <<"i","n","d","i","c","-","b","e","r","t">>

HFRecord(model) ==
    [username |-> model.author,
     bio |-> <<"M","L"," ","B","u","i","l","d","e","r"," ","-"," ">> \o HFModelId(model.author),
     location |-> <<"I","n","d","i","a"," ","(","H","u","g","g","i","n","g","F","a","c","e",")">>,
     followers |-> model.downloads,
     public_repos |-> 0,
     discovery_method |-> "huggingface"]

\* one `for model in resp.json()` iteration
HFItem(s, model) ==
    IF model.author # "" /\ ~(\E i \in 1..Len(s.founders) : s.founders[i].username = model.author)
    THEN [s EXCEPT !.founders = Append(@, HFRecord(model))]
    ELSE s

RECURSIVE HFItems(_, _)
HFItems(s, models) ==
    IF models = <<>> THEN s
    ELSE HFItems(HFItem(s, Head(models)), Tail(models))

\* one `for term in search_terms` iteration; resp = [status, models]
HFTerm(s, term, resp) ==
    LET s1 == Get_(s, "models", term, resp.status)
    IN  IF resp.status = Raised THEN s1
        ELSE IF resp.status = 200 THEN Sleep(HFItems(s1, resp.models), 5)
        ELSE Sleep(s1, 5)

----------------------------------------------------------------------------
(* The parts of the state a specification does not use stay at these values. *)

NotScored == [username |-> "-"]

NotReturned == <<[username |-> "-"]>>

NoFile == <<[username |-> "-"]>>

NoAnswer == [status |-> -1]

ScoreIdle ==
    /\ probe = NotScored
    /\ scored = NotScored

AdaptersIdle ==
    /\ adapter = "-"
    /\ qi = 0
    /\ local = AdapterStart
    /\ answer = NoAnswer
    /\ returned = NotReturned

MainIdle ==
    /\ pc = "-"
    /\ token = "-"
    /\ all_founders = <<>>
    /\ seen_usernames = {}
    /\ insertion = <<>>
    /\ yielded = {}
    /\ invoked = {}
    /\ raised = {}
    /\ network = FALSE
    /\ file = NoFile
    /\ writes = 0

----------------------------------------------------------------------------
(* SpecAdapters: one adapter method run iteration by iteration, each iteration *)
(* against an upstream answer drawn from the bounded sets below.              *)

\* the longest item list an upstream answer carries
MaxItems == 2

RECURSIVE ListsUpTo(_, _)
ListsUpTo(S, n) ==
    IF n = 0 THEN {<<>>}
    ELSE LET shorter == ListsUpTo(S, n - 1)
         IN  shorter \cup {Append(l, x) : l \in {m \in shorter : Len(m) = n - 1}, x \in S}

\* a listing call's answers: a failure, or 200 with a list of items
Responses(Items) ==
    {[status |-> st, items |-> <<>>] : st \in Statuses \ {200}}
        \cup {[status |-> 200, items |-> l] : l \in ListsUpTo(Items, MaxItems)}

\* the logins the upstream answers of SpecAdapters name
StepLogins == {"asha", "ravi", "kim"}

\* search hits / result users, each with the outcome of the profile lookup it triggers
OwnerItems == [owner : StepLogins, profile_status : Statuses]
UserItems == [login : StepLogins, profile_status : Statuses]

\* contributors, on either side of the threshold; one below it triggers no lookup
ContribItems ==
    [login : StepLogins, contributions : {4}, profile_status : {200}]
        \cup [login : StepLogins, contributions : {5}, profile_status : Statuses]

\* trending rows, with the outcomes of the profile and repository lookups
TrendingRows ==
    [owner : StepLogins, profile_status : Statuses \ {200}, repo_status : {200}]
        \cup [owner : StepLogins, profile_status : {200}, repo_status : {200, 500, Raised}]

\* the trending page is parsed whatever its status; a failed page carries no rows
TrendingResponses ==
    {[status |-> st, repos |-> <<>>] : st \in {500, Raised}}
        \cup {[status |-> 200, repos |-> l] : l \in ListsUpTo(TrendingRows, MaxItems)}

HFModels == [author : HFAuthors, downloads : {100, 2000}]

HFResponses ==
    {[status |-> st, models |-> <<>>] : st \in Statuses \ {200}}
        \cup {[status |-> 200, models |-> l] : l \in ListsUpTo(HFModels, MaxItems)}

AdapterNames == {"trending", "star_velocity", "contributor", "keyword", "huggingface"}

LoopLength(a) ==
    CASE a = "trending" -> Len(pages)
      [] a = "star_velocity" -> Len(queries)
      [] a = "contributor" -> Len(hot_projects)
      [] a = "keyword" -> Len(searches)
      [] OTHER -> Len(search_terms)

\* the state an iteration starts from: only the current iteration's trace is kept
Fresh(s) == [s EXCEPT !.trace = <<>>]

AdaptersInit ==
    /\ ScoreIdle /\ MainIdle
    /\ adapter \in AdapterNames
    /\ qi = 1
    /\ local = AdapterStart
    /\ answer = NoAnswer
    /\ returned = NotReturned

TrendingStep ==
    /\ adapter = "trending" /\ qi <= Len(pages) /\ answer = NoAnswer
    /\ \E resp \in TrendingResponses :
            /\ local' = TrendingPage(local, pages[qi], resp)
            /\ answer' = resp
    /\ UNCHANGED <<adapter, qi, returned, main_vars, score_vars>>

StarStep ==
    /\ adapter = "star_velocity" /\ qi <= Len(queries) /\ answer = NoAnswer
    /\ \E resp \in Responses(OwnerItems) :
            /\ local' = StarQuery(local, queries[qi], resp)
            /\ answer' = resp
    /\ UNCHANGED <<adapter, qi, returned, main_vars, score_vars>>

ContributorStep ==
    /\ adapter = "contributor" /\ qi <= Len(hot_projects) /\ answer = NoAnswer
    /\ \E resp \in Responses(ContribItems) :
            /\ local' = ContributorProject(local, hot_projects[qi], resp)
            /\ answer' = resp
    /\ UNCHANGED <<adapter, qi, returned, main_vars, score_vars>>

KeywordStep ==
    /\ adapter = "keyword" /\ qi <= Len(searches) /\ answer = NoAnswer
    /\ \E resp \in Responses(UserItems) :
            /\ local' = KeywordQuery(local, searches[qi], resp)
            /\ answer' = resp
    /\ UNCHANGED <<adapter, qi, returned, main_vars, score_vars>>

HFStep ==
    /\ adapter = "huggingface" /\ qi <= Len(search_terms) /\ answer = NoAnswer
    /\ \E resp \in HFResponses :
            /\ local' = HFTerm(local, search_terms[qi], resp)
            /\ answer' = resp
    /\ UNCHANGED <<adapter, qi, returned, main_vars, score_vars>>

\* the loop header: the iteration is over, on to the next query / project / page / term
NextIteration ==
    /\ answer # NoAnswer
    /\ qi' = qi + 1
    /\ local' = Fresh(local)
    /\ answer' = NoAnswer
    /\ UNCHANGED <<adapter, returned, main_vars, score_vars>>

\* return founders (founders[:max_users] for the model hub)
Return ==
    /\ qi > LoopLength(adapter) /\ returned = NotReturned
    /\ returned' = IF adapter = "huggingface" THEN Take(local.founders, max_users)
                   ELSE local.founders
    /\ UNCHANGED <<adapter, qi, local, answer, main_vars, score_vars>>

AdaptersNext ==
    \/ TrendingStep
    \/ StarStep
    \/ ContributorStep
    \/ KeywordStep
    \/ HFStep
    \/ NextIteration
    \/ Return

SpecAdapters == AdaptersInit /\ [][AdaptersNext]_vars

----------------------------------------------------------------------------
(* The adapter methods as main() calls them: the loop run to its end against *)
(* a world, the upstream answer to each query / project / page / term.       *)

RECURSIVE discover_from_trending(_, _, _)
discover_from_trending(s, i, world) ==
    IF i > Len(pages) THEN s
    ELSE discover_from_trending(TrendingPage(s, pages[i], world[i]), i + 1, world)

RECURSIVE find_rising_stars(_, _, _)
find_rising_stars(s, i, world) ==
    IF i > Len(queries) THEN s
    ELSE find_rising_stars(StarQuery(s, queries[i], world[i]), i + 1, world)

RECURSIVE get_hot_project_contributors(_, _, _)
get_hot_project_contributors(s, i, world) ==
    IF i > Len(hot_projects) THEN s
    ELSE get_hot_project_contributors(
             ContributorProject(s, hot_projects[i], world[i]), i + 1, world)

RECURSIVE search(_, _, _)
search(s, i, world) ==
    IF i > Len(searches) THEN s
    ELSE search(KeywordQuery(s, searches[i], world[i]), i + 1, world)

RECURSIVE search_indian_ml_builders(_, _, _)
search_indian_ml_builders(s, i, world) ==
    IF i > Len(search_terms) THEN [s EXCEPT !.founders = Take(@, max_users)]
    ELSE search_indian_ml_builders(HFTerm(s, search_terms[i], world[i]), i + 1, world)

\* the adapter's method, called on a world
Fetch(a, world) ==
    CASE a = "trending" -> discover_from_trending(AdapterStart, 1, world)
      [] a = "star_velocity" -> find_rising_stars(AdapterStart, 1, world)
      [] a = "contributor" -> get_hot_project_contributors(AdapterStart, 1, world)
      [] a = "keyword" -> search(AdapterStart, 1, world)
      [] OTHER -> search_indian_ml_builders(AdapterStart, 1, world)

----------------------------------------------------------------------------
(* main() *)

\* the longest list of hits one upstream answer carries in Spec
MaxHits == 3

AdapterOrder == <<"trending", "star_velocity", "contributor", "keyword", "huggingface">>

\* the statement after adapter a's try block
NextStage_score_before_last(a) ==
    CASE a = "trending" -> "star_velocity"
      [] a = "star_velocity" -> "contributor"
      [] a = "contributor" -> "keyword"
      [] OTHER -> "score"

NextStage(a) ==
    CASE a = "trending" -> "star_velocity"
      [] a = "star_velocity" -> "contributor"
      [] a = "contributor" -> "keyword"
      [] a = "keyword" -> "huggingface"
      [] OTHER -> "score"

\* `except Exception as e: print(...)`: control falls through to the next block
AfterException_abort(a) == "done"

AfterException(a) == NextStage(a)

\* if not token
Falsy_none_only(tok) == tok = "None"

Falsy(tok) == tok \in {"None", ""}

\* for f in <adapter's list>: if f['username'] not in seen_usernames: add, append
FoldOne_no_dedup(agg, f) ==
    [all_founders |-> Append(agg.all_founders, f),
     seen_usernames |-> agg.seen_usernames \cup {f.username}]

FoldOne(agg, f) ==
    IF f.username \notin agg.seen_usernames
    THEN [all_founders |-> Append(agg.all_founders, f),
          seen_usernames |-> agg.seen_usernames \cup {f.username}]
    ELSE agg

RECURSIVE Fold(_, _)
Fold(agg, list) ==
    IF list = <<>> THEN agg ELSE Fold(FoldOne(agg, Head(list)), Tail(list))

\* all_founders.sort(key=lambda x: x['overall_score'], reverse=True): a stable sort
\* (equal keys keep their order, also under reverse=True), as an insertion from the left
InsertDesc_unstable(sorted, f) ==
    LET before == {i \in 1..Len(sorted) : sorted[i].overall_score > f.overall_score}
        n == Cardinality(before)
    IN  SubSeq(sorted, 1, n) \o <<f>> \o SubSeq(sorted, n + 1, Len(sorted))

InsertDesc(sorted, f) ==
    LET before == {i \in 1..Len(sorted) : sorted[i].overall_score >= f.overall_score}
        n == Cardinality(before)
    IN  SubSeq(sorted, 1, n) \o <<f>> \o SubSeq(sorted, n + 1, Len(sorted))

RECURSIVE SortDesc(_, _)
SortDesc(sorted, rest) ==
    IF rest = <<>> THEN sorted ELSE SortDesc(InsertDesc(sorted, Head(rest)), Tail(rest))

\* the dict main appends to output (verbatim-copied fields left out as in Users)
OutputRecord(f) ==
    [username |-> Get(f, "username", ""),
     bio |-> Get(f, "bio", <<>>),
     location |-> Get(f, "location", <<>>),
     followers |-> Get(f, "followers", 0),
     public_repos |-> Get(f, "public_repos", 0),
     company |-> Get(f, "company", <<>>),
     discovery_method |-> Get(f, "discovery_method", ""),
     trending_repo |-> Get(f, "trending_repo", ""),
     contributed_to |-> Get(f, "contributed_to", ""),
     scores |-> Get(f, "scores", <<>>),
     overall_score |-> Get(f, "overall_score", 0),
     source |-> IF Get(f, "discovery_method", "") = "huggingface" THEN "huggingface"
                ELSE "github"]

\* the lists of at most n distinct elements of S
RECURSIVE DistinctLists(_, _)
DistinctLists(S, n) ==
    IF n = 0 THEN {<<>>}
    ELSE LET shorter == DistinctLists(S, n - 1)
         IN  shorter \cup
               UNION {{Append(l, x) : x \in {y \in S : \A i \in 1..Len(l) : l[i] # y}} :
                        l \in {m \in shorter : Len(m) = n - 1}}

\* the worlds of Spec: one query answers 200 with `items`, every other one 200 with nothing
HitWorld(n, k, items) ==
    [i \in 1..n |-> IF i = k THEN [status |-> 200, items |-> items, repos |-> items, models |-> items]
                    ELSE [status |-> 200, items |-> <<>>, repos |-> <<>>, models |-> <<>>]]

\* the items such an answer lists; every lookup they trigger answers 200
Hits(a) ==
    CASE a = "trending" -> [owner : Logins, profile_status : {200}, repo_status : {200}]
      [] a = "star_velocity" -> [owner : Logins, profile_status : {200}]
      [] a = "contributor" -> [login : Logins, contributions : {30}, profile_status : {200}]
      [] a = "keyword" -> [login : Logins, profile_status : {200}]
      [] OTHER -> {[author |-> "asha", downloads |-> 100], [author |-> "hfdev", downloads |-> 2000]}

Usernames(list) == {list[i].username : i \in 1..Len(list)}

Init ==
    /\ ScoreIdle /\ AdaptersIdle
    /\ pc = "start"
    /\ token \in {"None", "", "ghp_token"}
    /\ all_founders = <<>>
    /\ seen_usernames = {}
    /\ insertion = <<>>
    /\ yielded = {}
    /\ invoked = {}
    /\ raised = {}
    /\ network = FALSE
    /\ file = NoFile
    /\ writes = 0

\* token = os.environ.get('GITHUB_TOKEN'); if not token: print(...); return
CheckToken ==
    /\ pc = "start"
    /\ pc' = IF Falsy(token) THEN "done" ELSE "trending"
    /\ UNCHANGED <<token, all_founders, seen_usernames, insertion, yielded, invoked, raised,
                   network, file, writes, score_vars, adapter_vars>>

\* one try block of main: the adapter's method returns its list, which is folded in
AdapterReturns ==
    /\ pc \in AdapterNames
    /\ \E k \in {1, LoopLength(pc)}, items \in DistinctLists(Hits(pc), MaxHits) :
          LET s == Fetch(pc, HitWorld(LoopLength(pc), k, items))
              agg == Fold([all_founders |-> all_founders, seen_usernames |-> seen_usernames],
                          s.founders)
          IN  /\ all_founders' = agg.all_founders
              /\ seen_usernames' = agg.seen_usernames
              /\ insertion' = [i \in 1..Len(agg.all_founders) |-> agg.all_founders[i].username]
              /\ yielded' = yielded \cup {<<pc, u>> : u \in Usernames(s.founders)}
              /\ network' = (network \/ s.trace # <<>>)
    /\ invoked' = invoked \cup {pc}
    /\ pc' = NextStage(pc)
    /\ UNCHANGED <<token, raised, file, writes, score_vars, adapter_vars>>

\* one try block of main: the adapter's constructor or method raises
AdapterRaises ==
    /\ pc \in AdapterNames
    /\ invoked' = invoked \cup {pc}
    /\ raised' = raised \cup {pc}
    /\ \E issued \in BOOLEAN : network' = (network \/ issued)
    /\ pc' = AfterException(pc)
    /\ UNCHANGED <<token, all_founders, seen_usernames, insertion, yielded, file, writes,
                   score_vars, adapter_vars>>

\* all_founders = [calculate_score(f) for f in all_founders]
ScoreAll ==
    /\ pc = "score"
    /\ all_founders' = [i \in 1..Len(all_founders) |-> calculate_score(all_founders[i])]
    /\ pc' = "sort"
    /\ UNCHANGED <<token, seen_usernames, insertion, yielded, invoked, raised, network, file, writes,
                   score_vars, adapter_vars>>

\* all_founders.sort(...)
SortAll ==
    /\ pc = "sort"
    /\ all_founders' = SortDesc(<<>>, all_founders)
    /\ pc' = "save"
    /\ UNCHANGED <<token, seen_usernames, insertion, yielded, invoked, raised, network, file, writes,
                   score_vars, adapter_vars>>

\* output = [...]; with open('developers.json', 'w') as file: json.dump(output, file)
Save ==
    /\ pc = "save"
    /\ file' = [i \in 1..Len(all_founders) |-> OutputRecord(all_founders[i])]
    /\ writes' = writes + 1
    /\ pc' = "done"
    /\ UNCHANGED <<token, all_founders, seen_usernames, insertion, yielded, invoked, raised,
                   network, score_vars, adapter_vars>>

Next ==
    \/ CheckToken
    \/ AdapterReturns
    \/ AdapterRaises
    \/ ScoreAll
    \/ SortAll
    \/ Save

Spec == Init /\ [][Next]_vars

----------------------------------------------------------------------------
(* SpecScore: calculate_score applied to one record drawn from bounded sets *)

ProbeFollowers == {0, 1, 40, 1000, 2100}
ProbeStars == {0, 50, 500}
ProbeContributions == {0, 5, 30}
ProbeRepos == {0, 10, 40}
ProbeBios ==
    { None, <<>>, <<"d","e","v">>,
      <<"A","I"," ","f","o","u","n","d","e","r">> }
ProbeMethods == {"trending", "star_velocity", "contributor", "keyword", "huggingface", "manual"}

ProbeRecords ==
    { [username |-> "probe", followers |-> f, repo_stars |-> s, contributions |-> c,
       public_repos |-> p, bio |-> b, discovery_method |-> m] :
        f \in ProbeFollowers, s \in ProbeStars, c \in ProbeContributions,
        p \in ProbeRepos, b \in ProbeBios, m \in ProbeMethods }

ScoreInit ==
    /\ AdaptersIdle /\ MainIdle
    /\ probe \in ProbeRecords
    /\ scored = NotScored

Score ==
    /\ scored = NotScored
    /\ scored' = calculate_score(probe)
    /\ UNCHANGED <<probe, main_vars, adapter_vars>>

ScoreNext == Score

SpecScore == ScoreInit /\ [][ScoreNext]_vars

----------------------------------------------------------------------------
(* Claims about calculate_score (checked under SpecScore) *)

SubScoreNames == {"growth", "velocity", "hidden_gem", "pioneer"}

\* the weighted sum of the stored (one-decimal) sub-scores, in 1/200
StoredWeightedSum(s) ==
    (5 * s.growth) + (5 * s.velocity) + (4 * s.hidden_gem) + (6 * s.pioneer)

Abs(x) == IF x < 0 THEN -x ELSE x

\* C2: every sub-score stored in scores (growth, velocity, hidden_gem, pioneer)
\* lies in [0, 100] (stored values are in tenths, so in 0..1000).
Claim_C2_SubScoresClamped ==
    scored # NotScored =>
        \A k \in SubScoreNames : scored.scores[k] >= 0 /\ scored.scores[k] <= 100 * 10

\* C9: whatever the discovery method, overall_score is the weighted sum
\* growth*0.25 + velocity*0.25 + hidden_gem*0.20 + pioneer*0.30 of the record's
\* own sub-scores, to the one decimal that round() keeps: equal to the rounded
\* weighted sum of the stored sub-scores when these are exact (followers even),
\* and within 0.1 of it otherwise; scores.overall_score is the same value; and
\* no clamp to 100 is applied (Witness_C9 reaches a value above 100).
Thm_C9_OverallIsWeightedSum ==
    scored # NotScored =>
        LET W == StoredWeightedSum(scored.scores)
        IN  /\ scored.scores.overall_score = scored.overall_score
            /\ Abs(20 * scored.overall_score - W) <= 20
            /\ (scored.followers % 2 = 0 => scored.overall_score = RoundHalfEven(W, 20))

Witness_C9 ==
    /\ scored # NotScored
    /\ scored.overall_score > 100 * 10
    /\ scored.discovery_method = "trending"

----------------------------------------------------------------------------
(* Claims about main() (checked under Spec) *)

\* the first adapter, in the fixed order, that returned a record for username u
FirstYielder(u) ==
    AdapterOrder[CHOOSE k \in 1..Len(AdapterOrder) :
        /\ <<AdapterOrder[k], u>> \in yielded
        /\ \A j \in 1..(k - 1) : <<AdapterOrder[j], u>> \notin yielded]

\* no two records of list share a username, every yielded username has its record,
\* and the record is the first yielder's
FirstSeenWins(list) ==
    /\ \A i, j \in 1..Len(list) : i # j => list[i].username # list[j].username
    /\ \A y \in yielded : \E i \in 1..Len(list) : list[i].username = y[2]
    /\ \A i \in 1..Len(list) :
          /\ \E y \in yielded : y[2] = list[i].username
          /\ list[i].discovery_method = FirstYielder(list[i].username)

\* C1: after the adapters are folded in the fixed order, no two aggregated records
\* share a username, and a username returned by several adapters keeps the single
\* record of the adapter called first (its discovery_method is that adapter's tag);
\* the same holds of the written output.
Thm_C1_FirstSeenWins ==
    /\ FirstSeenWins(all_founders)
    /\ file # NoFile => FirstSeenWins(file)

Witness_C1 ==
    /\ file # NoFile
    /\ \E u \in seen_usernames :
          /\ <<"star_velocity", u>> \in yielded
          /\ <<"keyword", u>> \in yielded
          /\ <<"huggingface", u>> \in yielded
          /\ \E i \in 1..Len(file) :
                file[i].username = u /\ file[i].discovery_method = "star_velocity"

\* position of username u in the order of insertion
Pos(u) == CHOOSE k \in 1..Len(insertion) : insertion[k] = u

\* descending by overall_score, equal scores in insertion order
SortedStable(list) ==
    /\ Len(list) = Len(insertion)
    /\ \A i \in 1..Len(list) : \E k \in 1..Len(insertion) : insertion[k] = list[i].username
    /\ \A i, j \in 1..Len(list) :
          i < j =>
            \/ list[i].overall_score > list[j].overall_score
            \/ /\ list[i].overall_score = list[j].overall_score
               /\ Pos(list[i].username) < Pos(list[j].username)

\* C3: the sorted list and the output array are ordered by overall_score descending,
\* and records of equal overall_score keep the relative order of their insertion.
Thm_C3_StableSortDescending ==
    /\ pc = "save" => SortedStable(all_founders)
    /\ file # NoFile => SortedStable(file)

\* insertion order [low, high, low] with equal lows, written as [high, first low, second low]
Witness_C3 ==
    /\ file # NoFile
    /\ \E a, b, c \in 1..Len(file) :
          /\ Pos(file[b].username) < Pos(file[a].username)
          /\ Pos(file[a].username) < Pos(file[c].username)
          /\ file[b].overall_score = file[c].overall_score
          /\ file[a].overall_score > file[b].overall_score
          /\ a < b /\ b < c

\* C4: with GITHUB_TOKEN absent or empty, main() ends without calling any adapter,
\* without any upstream call and without writing developers.json.
Thm_C4_NoTokenNoWork ==
    token \in {"None", ""} =>
        /\ pc \in {"start", "done"}
        /\ invoked = {}
        /\ ~network
        /\ file = NoFile
        /\ all_founders = <<>>

Witness_C4 == token = "" /\ pc = "done"

\* C6 (state part): a run with the token ends with all five adapters called and the
\* output written, whichever adapters raised.
C6_RunCompletes ==
    (pc = "done" /\ token \notin {"None", ""}) => (invoked = AdapterNames /\ file # NoFile)

\* C6 (step part): the step in which an adapter raises leaves the aggregated records
\* as they were and moves on to the next adapter (or to scoring after the last one).
C6_RaiseIsIsolated ==
    (raised' # raised) =>
        /\ all_founders' = all_founders
        /\ seen_usernames' = seen_usernames
        /\ pc' = NextStage(pc)
        /\ pc' # "done"

\* C6: adapter-level fault isolation: when an adapter raises in main(), every later
\* adapter is still called, the records aggregated so far are kept unchanged, and the
\* run goes on to scoring, sorting and writing the output.
Thm_C6_AdapterFaultIsolation == []C6_RunCompletes /\ [][C6_RaiseIsIsolated]_vars

Witness_C6 ==
    /\ pc = "done" /\ file # NoFile
    /\ "star_velocity" \in raised
    /\ \E i, j \in 1..Len(file) :
          file[i].discovery_method = "trending" /\ file[j].discovery_method = "keyword"

\* the corporate-affiliation keywords of the specification's filter (the specification
\* gives no list; one employer name stands for it)
corporate_keywords == << <<"g","o","o","g","l","e">> >>

isCorporateAffiliated(company, bio) ==
    AnyIn(corporate_keywords, lower(company)) \/ AnyIn(corporate_keywords, lower(bio))

\* C8: no record whose company or bio text contains a corporate-affiliation keyword
\* appears in the output.
Claim_C8_CorporateFilteredOut ==
    file # NoFile =>
        \A i \in 1..Len(file) : ~isCorporateAffiliated(file[i].company, file[i].bio)

RegionAdapters == {"trending", "star_velocity", "contributor"}

Allowlist(a) == IF a = "trending" THEN trending_india_keywords ELSE india_keywords

\* C10: the trending, star_velocity and contributor adapters return a record only for
\* a profile whose location, lower-cased, contains a keyword of that adapter's own
\* allowlist; a profile with an empty or absent location is never returned by them.
Thm_C10_RegionFilter ==
    /\ \A y \in yielded :
          y[1] \in RegionAdapters =>
            /\ Users[y[2]].location \notin {None, <<>>}
            /\ AnyIn(Allowlist(y[1]), lower(Users[y[2]].location))
    /\ \A i \in 1..Len(all_founders) :
          all_founders[i].discovery_method \in RegionAdapters =>
            AnyIn(Allowlist(all_founders[i].discovery_method), lower(all_founders[i].location))

\* "PUNE" matches case-insensitively; "Indore" matches the trending allowlist only
Witness_C10 ==
    /\ <<"trending", "ravi">> \in yielded
    /\ <<"star_velocity", "asha">> \in yielded
    /\ <<"contributor", "asha">> \in yielded
    /\ <<"keyword", "anon">> \in yielded
    /\ <<"keyword", "blank">> \in yielded

----------------------------------------------------------------------------
(* Claims about the adapters' loops (checked under SpecAdapters) *)

IsGet(e) == e[1] = "GET"

IsPause(e, tenths) == e[1] = "sleep" /\ e[2] = tenths

SameCall(e, f) == IsGet(e) /\ IsGet(f) /\ e[2] = f[2] /\ e[3] = f[3]

\* the 60-second pause of the specification, in tenths of a second
RateLimitPause == 600

\* trace[i] is the retry of a rate-limited call
IsRetry(trace, i) ==
    /\ i > 2
    /\ IsPause(trace[i - 1], RateLimitPause)
    /\ SameCall(trace[i - 2], trace[i])
    /\ trace[i - 2][4] = 403

\* C5: a code-hosting call answered 403 is followed by one pause of 60 and one
\* re-issue of the same call, and a retry that fails is not retried again.
Claim_C5_RetryOnceAfterRateLimit ==
    adapter \in {"trending", "star_velocity"} =>
        \A i \in 1..Len(local.trace) :
            (IsGet(local.trace[i]) /\ local.trace[i][4] = 403 /\ ~IsRetry(local.trace, i)) =>
                /\ i + 2 <= Len(local.trace)
                /\ IsPause(local.trace[i + 1], RateLimitPause)
                /\ SameCall(local.trace[i], local.trace[i + 2])

ListingAdapters == {"star_velocity", "contributor", "keyword"}

ItemLogin(item) == IF "owner" \in DOMAIN item THEN item.owner ELSE item.login

IsPrefix(p, l) == Len(p) <= Len(l) /\ SubSeq(l, 1, Len(p)) = p

\* the records the iteration appended
Appended(old, new) == SubSeq(new, Len(old) + 1, Len(new))

\* C7 (state part): the method returns only after the last query of its list, and in
\* an iteration where no call raised every listed item has been taken up (its login is
\* in seen unless it is a contributor below the threshold), whatever status the lookups
\* of the items before it returned.
C7_LoopRunsToEnd ==
    adapter \in ListingAdapters =>
        /\ returned # NotReturned => qi = LoopLength(adapter) + 1
        /\ (answer # NoAnswer /\ answer.status = 200
              /\ \A k \in 1..Len(answer.items) : answer.items[k].profile_status # Raised) =>
                \A k \in 1..Len(answer.items) :
                    \/ ItemLogin(answer.items[k]) \in local.seen
                    \/ Get(answer.items[k], "contributions", min_contributions) < min_contributions

\* C7 (step part): an iteration keeps the records collected before it; a listing call
\* answered 500 adds no record and the loop goes on; a profile lookup answered 500 adds
\* no record for that login.
C7_FailureAddsNothing ==
    (adapter \in ListingAdapters /\ answer = NoAnswer /\ answer' # NoAnswer) =>
        /\ IsPrefix(local.founders, local'.founders)
        /\ returned' = NotReturned /\ qi' = qi /\ qi <= LoopLength(adapter)
        /\ answer'.status = 500 => local'.founders = local.founders
        /\ answer'.status = 200 =>
              \A k \in 1..Len(answer'.items) :
                  (answer'.items[k].profile_status = 500
                     /\ \A j \in 1..(k - 1) :
                           ItemLogin(answer'.items[j]) # ItemLogin(answer'.items[k])) =>
                        ItemLogin(answer'.items[k]) \notin
                            Usernames(Appended(local.founders, local'.founders))

\* C7: within the star_velocity, contributor and keyword adapters, a call answered with
\* a non-success status other than 403 contributes no record, the adapter goes on with
\* every remaining query, project and item, and the records it has collected are kept.
Thm_C7_FailedCallIsSkipped == []C7_LoopRunsToEnd /\ [][C7_FailureAddsNothing]_vars

\* a lookup answered 500 followed, in the same iteration, by a lookup that yields a
\* record, in a later query than the first
Witness_C7 ==
    /\ adapter = "star_velocity" /\ qi > 2
    /\ answer # NoAnswer /\ answer.status = 200 /\ Len(answer.items) = 2
    /\ answer.items[1] = [owner |-> "kim", profile_status |-> 500]
    /\ answer.items[2] = [owner |-> "asha", profile_status |-> 200]
    /\ Len(local.founders) = 1 /\ local.founders[1].username = "asha"
    /\ \E i \in 1..Len(local.trace) : local.trace[i] = <<"GET", "users", "kim", 500>>

----------------------------------------------------------------------------
(* C11: the single write of developers.json *)

\* every record of the list carries the fields calculate_score adds
AllScored(list) ==
    \A i \in 1..Len(list) :
        "scores" \in DOMAIN list[i] /\ "overall_score" \in DOMAIN list[i]

\* C11 (state part): the file is opened for writing at most once, it has content exactly
\* when it has been written, nothing is written before main() reaches its end, and a run
\* with the token that has ended has written it.
C11_WrittenOnce ==
    /\ writes \in {0, 1}
    /\ (writes = 0) <=> (file = NoFile)
    /\ writes = 1 => pc = "done"
    /\ (pc = "done" /\ token \notin {"None", ""}) => writes = 1

\* C11 (step part): the step that writes is the first write, it comes after all five
\* adapters were called, it finds every aggregated record scored and the list sorted,
\* and it writes that list; no other step changes the file.
C11_WriteIsLast ==
    /\ (writes' # writes) =>
            /\ writes = 0 /\ writes' = 1
            /\ token \notin {"None", ""}
            /\ invoked = AdapterNames
            /\ AllScored(all_founders)
            /\ SortedStable(all_founders)
            /\ file' = [i \in 1..Len(all_founders) |-> OutputRecord(all_founders[i])]
            /\ pc' = "done"
    /\ (file' # file) => (writes' # writes)

\* C11: in a run with the token, developers.json is written exactly once, after all five
\* adapters have been called (each returned or raised) and every aggregated record has
\* been scored and sorted; nothing is written at any earlier point of the run.
Thm_C11_OutputWrittenOnceAtEnd == []C11_WrittenOnce /\ [][C11_WriteIsLast]_vars

\* the one write has happened, after an adapter raised and others returned records
Witness_C11 ==
    /\ pc = "done" /\ writes = 1
    /\ invoked = AdapterNames
    /\ raised # {}
    /\ Len(file) >= 2
    /\ AllScored(file)

----------------------------------------------------------------------------
(* C12: the contribution threshold of the contributor adapter *)

\* the logins whose profile the iteration's trace requests
ProfileLookups(trace) ==
    {trace[i][3] : i \in {j \in 1..Len(trace) : trace[j][1] = "GET" /\ trace[j][2] = "users"}}

\* the logins a contributors listing names with at least 5 contributions
Passing(items) ==
    {items[k].login : k \in {j \in 1..Len(items) : items[j].contributions >= 5}}

\* C12 (state part): every record the contributor adapter holds has contributions >= 5,
\* no two of its records have the same login, every login with a record is marked seen,
\* the profiles requested in an iteration are those of contributors listed with at least
\* 5 contributions, each requested once, and the method returns the records it holds.
C12_RecordsPassThreshold ==
    adapter = "contributor" =>
        /\ \A i \in 1..Len(local.founders) :
              /\ local.founders[i].contributions >= 5
              /\ local.founders[i].discovery_method = "contributor"
              /\ local.founders[i].username \in local.seen
        /\ \A i, j \in 1..Len(local.founders) :
              i # j => local.founders[i].username # local.founders[j].username
        /\ answer # NoAnswer =>
              /\ ProfileLookups(local.trace) \subseteq Passing(answer.items)
              /\ \A i, j \in 1..Len(local.trace) :
                    (i # j /\ local.trace[i][1] = "GET" /\ local.trace[j][1] = "GET") =>
                        local.trace[i] # local.trace[j]
        /\ returned # NotReturned => returned = local.founders

\* C12 (step part): one project's iteration marks as seen only logins listed with at
\* least 5 contributions, requests the profile of exactly the logins it marks, and, when
\* no call raises, marks every such login that was not yet seen, also one that an
\* earlier listing named below the threshold.
C12_SeenOnlyAboveThreshold ==
    (adapter = "contributor" /\ answer = NoAnswer /\ answer' # NoAnswer) =>
        LET new == local'.seen \ local.seen
        IN  /\ local.seen \subseteq local'.seen
            /\ new \subseteq Passing(answer'.items)
            /\ ProfileLookups(local'.trace) = new
            /\ (\A k \in 1..Len(answer'.items) : answer'.items[k].profile_status # Raised) =>
                    new = Passing(answer'.items) \ local.seen
            /\ Usernames(Appended(local.founders, local'.founders)) \subseteq new

\* C12: the contributor adapter requests a profile only for a contributor with at least
\* 5 contributions in the project being scanned, so every record it yields has
\* contributions >= 5; a login is marked seen only when it passes that threshold, so a
\* contributor below it in one listing is still considered later, and each login yields
\* at most one record across all projects.
Thm_C12_ContributionThreshold ==
    []C12_RecordsPassThreshold /\ [][C12_SeenOnlyAboveThreshold]_vars

\* in a project after the first, a login listed with 4 contributions and then with 5 is
\* looked up once and yields its record, next to a login marked in an earlier project
Witness_C12 ==
    /\ adapter = "contributor" /\ qi >= 2
    /\ answer # NoAnswer /\ answer.status = 200 /\ Len(answer.items) = 2
    /\ answer.items[1] = [login |-> "asha", contributions |-> 4, profile_status |-> 200]
    /\ answer.items[2] = [login |-> "asha", contributions |-> 5, profile_status |-> 200]
    /\ local.seen = {"asha", "ravi"}
    /\ Len(local.founders) = 1
    /\ local.founders[1].username = "asha" /\ local.founders[1].contributions = 5
    /\ local.founders[1].contributed_to = hot_projects[qi]
    /\ ProfileLookups(local.trace) = {"asha"}

====
